---------------------------- MODULE Spec2Model ----------------------------
(***************************************************************************)
(* Ext.direct.Manager (src/touch/src/direct/Manager.js): the singleton     *)
(* that registers providers, keeps the transactions registry and           *)
(* republishes the payloads providers deliver on their 'data' event.       *)
(*                                                                         *)
(* Ext.util.Collection, the Observable mixin and the Provider classes are  *)
(* framework classes the Manager only calls; they are modelled as the      *)
(* specification describes them: keyed registries with unique keys, an     *)
(* observable with on/un/fireEvent, and providers with isConnected() and   *)
(* connect().                                                              *)
(***************************************************************************)
EXTENDS Integers, Sequences, FiniteSets, TLC

\* Number of provider instances the application can create.
NumProviders == 3
\* Number of transaction instances.
NumTransactions == 3
\* Number of distinct ids; items i and i + NumIds carry the same id.
NumIds == 2
\* Longest argument list of one addProvider call.
MaxArgs == 2
\* Longest array of payloads one 'data' event delivers.
MaxBatch == 2

Providers == 1..NumProviders
Transactions == 1..NumTransactions
Ids == 0..(NumIds - 1)

VARIABLES
    providers,      \* me.providers: the items of the Collection, in order
    transactions,   \* me.transactions: the items of the Collection, in order
    listeners,      \* providers whose 'data' event has me.onProviderData attached
    connected,      \* connected[p]: what p.isConnected() answers
    instantiated,   \* provider instances that exist
    call,           \* the last call: its operation, arguments, result, effects
    fired           \* the fireEvent calls the Manager made during the last call

vars == <<providers, transactions, listeners, connected, instantiated, call, fired>>

(***************************************************************************)
(* JavaScript values                                                       *)
(***************************************************************************)
Obj(x) == [tag |-> "object", ref |-> x]
NullV == [tag |-> "null", ref |-> 0]
UndefinedV == [tag |-> "undefined", ref |-> 0]

\* falsy for the values a lookup can give: null and undefined
Truthy(v) == v.tag = "object"

\* An argument that is a provider/transaction instance, or a plain id.
InstanceArg(x) == [isProvider |-> TRUE, ref |-> x, id |-> 0]
ConfigArg(x) == [isProvider |-> FALSE, ref |-> x, id |-> 0]
IdArg(k) == [isProvider |-> FALSE, ref |-> 0, id |-> k]

(***************************************************************************)
(* Items and their keys                                                    *)
(***************************************************************************)
\* item.getId(): the externally supplied identifier of a provider/transaction
getId(item) == item % NumIds

\* A key function that tells every item apart instead of giving its id.
getKeyIdentity(item) == item + NumIds

\* Manager.getKey, handed to both Collections
getKey(item) == getId(item)

(***************************************************************************)
(* Ext.util.Collection, a keyed registry                                   *)
(***************************************************************************)
\* position of the item stored under key, 0 when there is none
CollectionIndexOfKey(items, key) ==
    IF \E i \in 1..Len(items) : getKey(items[i]) = key
    THEN CHOOSE i \in 1..Len(items) : getKey(items[i]) = key
    ELSE 0

\* Collection.get(key): the item under key, undefined when there is none
CollectionGet(items, key) ==
    LET i == CollectionIndexOfKey(items, key)
    IN IF i = 0 THEN UndefinedV ELSE Obj(items[i])

\* Collection.add(item): a key already present has its item replaced
CollectionAdd(items, item) ==
    LET i == CollectionIndexOfKey(items, getKey(item))
    IN IF i = 0 THEN Append(items, item) ELSE [items EXCEPT ![i] = item]

\* Collection.remove(item): removes that very item; no effect when absent
CollectionRemove(items, item) ==
    SelectSeq(items, LAMBDA x : x # item)

(***************************************************************************)
(* The world the provider operations act on: the Manager's providers       *)
(* registry, the providers' listeners and connection state, the connect()  *)
(* calls made so far in the call, and the call's return value.             *)
(***************************************************************************)
World == [providers |-> providers, listeners |-> listeners,
          connected |-> connected, instantiated |-> instantiated,
          connects |-> <<>>, ret |-> UndefinedV]

\* Ext.create('direct.<type>provider', config): a new, unconnected instance
ExtCreate(w, p) ==
    [w EXCEPT !.instantiated = @ \cup {p}, !.connected[p] = FALSE]

\* provider.on('data', me.onProviderData, me): the same listener is kept once
on(w, p) == [w EXCEPT !.listeners = @ \cup {p}]

\* provider.un('data', me.onProviderData, me)
un(w, p) == [w EXCEPT !.listeners = @ \ {p}]

\* provider.isConnected()
isConnected(w, p) == w.connected[p]

\* provider.connect()
connect(w, p) ==
    [w EXCEPT !.connected[p] = TRUE, !.connects = Append(@, p)]


(***************************************************************************)
(* Manager: providers                                                      *)
(***************************************************************************)
\* addProvider with the connect() made unconditionally
addProviderOneAlwaysConnect(w, provider) ==
    LET p == provider.ref
        w1 == IF ~provider.isProvider THEN ExtCreate(w, p) ELSE w
        w2 == [w1 EXCEPT !.providers = CollectionAdd(@, p)]
        w3 == on(w2, p)
        w4 == connect(w3, p)
    IN [w4 EXCEPT !.ret = Obj(p)]

\* addProvider(provider) with one argument: instantiate a config, add to the
\* registry, attach onProviderData, connect when not connected, return it
addProviderOne(w, provider) ==
    LET p == provider.ref
        w1 == IF ~provider.isProvider THEN ExtCreate(w, p) ELSE w
        w2 == [w1 EXCEPT !.providers = CollectionAdd(@, p)]
        w3 == on(w2, p)
        w4 == IF ~isConnected(w3, p) THEN connect(w3, p) ELSE w3
    IN [w4 EXCEPT !.ret = Obj(p)]

RECURSIVE addProvider(_, _)

\* the loop of addProvider ending one argument early
RECURSIVE addProviderEachShort(_, _, _)
addProviderEachShort(w, args, i) ==
    IF i < Len(args) - 1
    THEN addProviderEachShort(addProvider(w, <<args[i + 1]>>), args, i + 1)
    ELSE [w EXCEPT !.ret = UndefinedV]

\* for (ln = args.length; i < ln; ++i) me.addProvider(args[i]); return;
RECURSIVE addProviderEach(_, _, _)
addProviderEach(w, args, i) ==
    IF i < Len(args)
    THEN addProviderEach(addProvider(w, <<args[i + 1]>>), args, i + 1)
    ELSE [w EXCEPT !.ret = UndefinedV]

\* addProvider(provider...): several arguments are added one by one
addProvider(w, args) ==
    IF Len(args) > 1
    THEN addProviderEach(w, args, 0)
    ELSE addProviderOne(w, args[1])

\* getProvider(id)
getProvider(items, id) ==
    IF id.isProvider THEN Obj(id.ref) ELSE CollectionGet(items, id.id)

\* removeProvider handing on what the lookup gave
removeProviderNoNull(w, provider) ==
    LET found == IF provider.isProvider THEN Obj(provider.ref)
                 ELSE CollectionGet(w.providers, provider.id)
    IN IF Truthy(found)
       THEN LET w1 == un(w, found.ref)
                w2 == [w1 EXCEPT !.providers = CollectionRemove(@, found.ref)]
            IN [w2 EXCEPT !.ret = found]
       ELSE [w EXCEPT !.ret = found]

\* removeProvider leaving onProviderData attached
removeProviderNoUn(w, provider) ==
    LET found == IF provider.isProvider THEN Obj(provider.ref)
                 ELSE CollectionGet(w.providers, provider.id)
    IN IF Truthy(found)
       THEN LET w2 == [w EXCEPT !.providers = CollectionRemove(@, found.ref)]
            IN [w2 EXCEPT !.ret = found]
       ELSE [w EXCEPT !.ret = NullV]

\* removeProvider(provider)
removeProvider(w, provider) ==
    LET found == IF provider.isProvider THEN Obj(provider.ref)
                 ELSE CollectionGet(w.providers, provider.id)
    IN IF Truthy(found)
       THEN LET w1 == un(w, found.ref)
                w2 == [w1 EXCEPT !.providers = CollectionRemove(@, found.ref)]
            IN [w2 EXCEPT !.ret = found]
       ELSE [w EXCEPT !.ret = NullV]

(***************************************************************************)
(* Manager: transactions                                                   *)
(***************************************************************************)
\* addTransaction(transaction)
addTransaction(items, transaction) == CollectionAdd(items, transaction)

\* getTransaction(transaction): an object is handed back, an id is looked up
getTransaction(items, transaction) ==
    IF transaction.isProvider THEN Obj(transaction.ref)
    ELSE CollectionGet(items, transaction.id)

\* removeTransaction(transaction)
removeTransaction(items, transaction) ==
    LET found == getTransaction(items, transaction)
    IN IF Truthy(found) THEN CollectionRemove(items, found.ref) ELSE items

(***************************************************************************)
(* Manager: republishing provider data                                     *)
(***************************************************************************)
EventNames == {"", "event", "exception", "message"}
\* a payload: event.getName() and event.getStatus()
Payloads == [name : EventNames, status : BOOLEAN]

\* me.fireEvent(name, args...)
Fire(name, args) == [name |-> name, args |-> args]

\* onProviderData raising the exception whatever the name: if, not else if
onProviderDataOneNoElse(provider, event) ==
    LET name == event.name
    IN (IF name # "" /\ name # "event" /\ name # "exception"
        THEN <<Fire(name, <<event>>)>>
        ELSE <<>>)
       \o (IF event.status = FALSE
           THEN <<Fire("exception", <<event>>)>>
           ELSE <<>>)
       \o <<Fire("event", <<event, provider>>)>>

\* onProviderData with the generic event fired first
onProviderDataOneEventFirst(provider, event) ==
    LET name == event.name
    IN <<Fire("event", <<event, provider>>)>> \o
       (IF name # "" /\ name # "event" /\ name # "exception"
        THEN <<Fire(name, <<event>>)>>
        ELSE IF event.status = FALSE
             THEN <<Fire("exception", <<event>>)>>
             ELSE <<>>)

\* onProviderData(provider, event) for one payload: the fireEvent calls
onProviderDataOne(provider, event) ==
    LET name == event.name
    IN (IF name # "" /\ name # "event" /\ name # "exception"
        THEN <<Fire(name, <<event>>)>>
        ELSE IF event.status = FALSE
             THEN <<Fire("exception", <<event>>)>>
             ELSE <<>>)
       \o <<Fire("event", <<event, provider>>)>>

\* onProviderData(provider, event) for an array: each element in order
RECURSIVE onProviderDataEach(_, _, _)
onProviderDataEach(provider, events, i) ==
    IF i < Len(events)
    THEN onProviderDataOne(provider, events[i + 1])
         \o onProviderDataEach(provider, events, i + 1)
    ELSE <<>>

\* onProviderData(provider, event)
onProviderData(provider, event) ==
    IF event.isArray
    THEN onProviderDataEach(provider, event.items, 0)
    ELSE onProviderDataOne(provider, event.items[1])

\* provider.fireEvent('data', provider, event): the attached listeners run
fireData(ls, provider, event) ==
    IF provider \in ls THEN onProviderData(provider, event) ELSE <<>>

(***************************************************************************)
(* The state machine                                                       *)
(***************************************************************************)
NoEvent == [isArray |-> FALSE, items |-> <<>>]

\* the record of a call: what was called with what, from which world
Called(op, args, provider, event, ret, connects) ==
    [op |-> op, args |-> args, provider |-> provider, event |-> event,
     ret |-> ret, connects |-> connects,
     pre |-> [providers |-> providers, listeners |-> listeners,
              connected |-> connected, instantiated |-> instantiated,
              transactions |-> transactions]]

\* the state after construction: both registries empty, nothing created
Init ==
    /\ providers = <<>>
    /\ transactions = <<>>
    /\ listeners = {}
    /\ connected = [p \in Providers |-> FALSE]
    /\ instantiated = {}
    /\ call = [op |-> "constructor", args |-> <<>>, provider |-> 0,
               event |-> NoEvent, ret |-> UndefinedV, connects |-> <<>>,
               pre |-> [providers |-> <<>>, listeners |-> {},
                        connected |-> [p \in Providers |-> FALSE],
                        instantiated |-> {}, transactions |-> <<>>]]
    /\ fired = <<>>

\* the application creates a provider instance itself
CreateProvider(p) ==
    /\ p \notin instantiated
    /\ instantiated' = instantiated \cup {p}
    /\ connected' = [connected EXCEPT ![p] = FALSE]
    /\ call' = Called("create", <<>>, p, NoEvent, UndefinedV, <<>>)
    /\ fired' = <<>>
    /\ UNCHANGED <<providers, transactions, listeners>>

\* the application (or the transport) connects or disconnects a provider
SetConnected(p, b) ==
    /\ p \in instantiated
    /\ connected[p] # b
    /\ connected' = [connected EXCEPT ![p] = b]
    /\ call' = Called("setConnected", <<>>, p, NoEvent, UndefinedV, <<>>)
    /\ fired' = <<>>
    /\ UNCHANGED <<providers, transactions, listeners, instantiated>>

\* an argument of addProvider: an instance that exists, or a config for one
\* that Ext.create is still to make
AddArg(p) == IF p \in instantiated THEN InstanceArg(p) ELSE ConfigArg(p)

\* argument lists: no two configs make the same instance
AddArgLists ==
    { args \in UNION { [1..n -> {AddArg(p) : p \in Providers}] : n \in 1..MaxArgs } :
        \A i, j \in 1..Len(args) :
            (i # j /\ ~args[i].isProvider) => args[i] # args[j] }

AddProvider(args) ==
    /\ args \in AddArgLists
    /\ LET w == addProvider(World, args)
       IN
       /\ providers' = w.providers
       /\ listeners' = w.listeners
       /\ connected' = w.connected
       /\ instantiated' = w.instantiated
       /\ call' = Called("addProvider", args, 0, NoEvent, w.ret, w.connects)
       /\ fired' = <<>>
       /\ UNCHANGED transactions

\* an argument of removeProvider: an instance that exists, or an id
RemoveArgs ==
    {InstanceArg(p) : p \in instantiated} \cup {IdArg(k) : k \in Ids}

RemoveProvider(arg) ==
    /\ arg \in RemoveArgs
    /\ LET w == removeProvider(World, arg)
       IN
       /\ providers' = w.providers
       /\ listeners' = w.listeners
       /\ connected' = w.connected
       /\ instantiated' = w.instantiated
       /\ call' = Called("removeProvider", <<arg>>, 0, NoEvent, w.ret, w.connects)
       /\ fired' = <<>>
       /\ UNCHANGED transactions

AddTransaction(t) ==
    /\ transactions' = addTransaction(transactions, t)
    /\ call' = Called("addTransaction", <<InstanceArg(t)>>, 0, NoEvent, Obj(t), <<>>)
    /\ fired' = <<>>
    /\ UNCHANGED <<providers, listeners, connected, instantiated>>

TransactionArgs ==
    {InstanceArg(t) : t \in Transactions} \cup {IdArg(k) : k \in Ids}

RemoveTransaction(arg) ==
    /\ transactions' = removeTransaction(transactions, arg)
    /\ call' = Called("removeTransaction", <<arg>>, 0, NoEvent,
                      getTransaction(transactions, arg), <<>>)
    /\ fired' = <<>>
    /\ UNCHANGED <<providers, listeners, connected, instantiated>>

\* what a provider can deliver: one payload, or an array of payloads
Deliveries ==
    {[isArray |-> FALSE, items |-> <<e>>] : e \in Payloads} \cup
    {[isArray |-> TRUE, items |-> es] :
        es \in UNION { [1..n -> Payloads] : n \in 0..MaxBatch }}

\* a provider fires its 'data' event
ProviderData(p, event) ==
    /\ p \in instantiated
    /\ fired' = fireData(listeners, p, event)
    /\ call' = Called("data", <<>>, p, event, UndefinedV, <<>>)
    /\ UNCHANGED <<providers, transactions, listeners, connected, instantiated>>

\* the provider operations, and what the application does to providers
NextProviders ==
    \/ \E p \in Providers : CreateProvider(p)
    \/ \E p \in Providers, b \in BOOLEAN : SetConnected(p, b)
    \/ \E args \in AddArgLists : AddProvider(args)
    \/ \E arg \in RemoveArgs : RemoveProvider(arg)

\* the two registries
Next ==
    \/ NextProviders
    \/ \E t \in Transactions : AddTransaction(t)
    \/ \E arg \in TransactionArgs : RemoveTransaction(arg)

Spec == Init /\ [][Next]_vars

\* the providers registry and the data the providers deliver
NextData ==
    \/ NextProviders
    \/ \E p \in Providers, event \in Deliveries : ProviderData(p, event)

SpecData == Init /\ [][NextData]_vars

(***************************************************************************)
(* Properties                                                              *)
(***************************************************************************)
\* the providers in the registry
Registered(items) == {items[i] : i \in 1..Len(items)}

\* the last call was addProvider with the single argument list <<p>>
AddedOne == call.op = "addProvider" /\ Len(call.args) = 1

\* C1: a single-provider addProvider(p) calls p.connect() exactly once when
\* p was not connected and not at all when it was, and p is connected when
\* the call returns, whatever was added or removed before.
C1_ConnectIfNotConnected ==
    AddedOne =>
        LET p == call.args[1].ref
            was == call.pre.connected[p]
        IN /\ (~was => call.connects = <<p>>)
           /\ (was => call.connects = <<>>)
           /\ connected[p]

\* C1 witness: a registered provider that was disconnected is added again
\* and connect() is called on it.
C1_Witness ==
    /\ AddedOne
    /\ call.args[1].ref \in Registered(call.pre.providers)
    /\ ~call.pre.connected[call.args[1].ref]
    /\ call.connects = <<call.args[1].ref>>
    /\ Len(providers) > 1

\* the last call was removeProvider(id) with an id no registered provider has
RemovedUnknownId ==
    /\ call.op = "removeProvider"
    /\ ~call.args[1].isProvider
    /\ \A q \in Registered(call.pre.providers) : getId(q) # call.args[1].id

\* C2: removeProvider(id) with an id that no provider in the registry has
\* returns null, leaves the registry unchanged and detaches no listener.
C2_RemoveUnknownIdReturnsNull ==
    RemovedUnknownId =>
        /\ call.ret = NullV
        /\ providers = call.pre.providers
        /\ listeners = call.pre.listeners

\* C2 witness: an unknown id is removed while another provider is registered
\* and listened to.
C2_Witness ==
    /\ RemovedUnknownId
    /\ providers # <<>>
    /\ listeners # {}

\* the provider removeProvider's argument names in the registry, if any
RegisteredFor(items, arg) ==
    IF arg.isProvider
    THEN {q \in Registered(items) : q = arg.ref}
    ELSE {q \in Registered(items) : getId(q) = arg.id}

\* C3: removeProvider, called with an id or with an instance, returns the
\* provider when it is in the registry and null when it is not.
C3_RemoveReturnsProviderOrNull ==
    call.op = "removeProvider" =>
        LET found == RegisteredFor(call.pre.providers, call.args[1])
        IN IF found = {}
           THEN call.ret = NullV
           ELSE call.ret.tag = "object" /\ call.ret.ref \in found

\* the last call was a delivery of data by a provider the Manager listens to
DeliveredData == call.op = "data" /\ call.provider \in call.pre.listeners

\* the names that are not republished under a name of their own
Unnamed(name) == name = "" \/ name = "event" \/ name = "exception"

\* the fireEvent calls of the last call that carry the given name
FiredAs(name) == {i \in 1..Len(fired) : fired[i].name = name}

\* C4 as stated: every delivered payload whose status is false is fired as
\* 'exception', whatever its name.
C4_ExceptionForEveryName ==
    DeliveredData =>
        \A i \in 1..Len(call.event.items) :
            call.event.items[i].status = FALSE =>
                \E j \in FiredAs("exception") :
                    fired[j].args = <<call.event.items[i]>>

\* C4 amended: a delivered payload whose status is false and whose name is
\* empty, 'event' or 'exception' is fired as 'exception' with the payload;
\* nothing else is: a payload with a name of its own is fired under that
\* name and never as 'exception', whatever its status.
C4_ExceptionForUnnamedOnly ==
    DeliveredData =>
        LET items == call.event.items
            failed == {i \in 1..Len(items) :
                          items[i].status = FALSE /\ Unnamed(items[i].name)}
        IN /\ \A i \in failed :
                  \E j \in FiredAs("exception") : fired[j].args = <<items[i]>>
           /\ Cardinality(FiredAs("exception")) = Cardinality(failed)

\* C4 witness: a failed payload named 'exception' is delivered and fired as
\* 'exception'.
C4_Witness ==
    /\ DeliveredData
    /\ ~call.event.isArray
    /\ call.event.items[1] = [name |-> "exception", status |-> FALSE]
    /\ FiredAs("exception") # {}

\* the last call delivered one payload (no array) from a registered provider
DeliveredOne ==
    /\ call.op = "data"
    /\ ~call.event.isArray
    /\ call.provider \in Registered(providers)

\* C5: a single payload from a registered provider fires 'event' exactly
\* once, with (payload, provider), as the last emission; a payload with a
\* name other than '', 'event' and 'exception' also fires that name exactly
\* once, with the payload, before it.
C5_RepublishedOnceEventLast ==
    DeliveredOne =>
        LET e == call.event.items[1]
        IN /\ fired # <<>>
           /\ fired[Len(fired)] = Fire("event", <<e, call.provider>>)
           /\ FiredAs("event") = {Len(fired)}
           /\ ~Unnamed(e.name) =>
                  /\ Cardinality(FiredAs(e.name)) = 1
                  /\ \A j \in FiredAs(e.name) :
                         j < Len(fired) /\ fired[j] = Fire(e.name, <<e>>)

\* C5 witness: a registered provider delivers a payload named 'message'.
C5_Witness ==
    /\ DeliveredOne
    /\ call.event.items[1].name = "message"
    /\ Len(fired) = 2

\* no two items of the registry have the same getId()
UniqueIds(items) ==
    \A i, j \in 1..Len(items) : i # j => getId(items[i]) # getId(items[j])

\* C6: after any sequence of addProvider, removeProvider, addTransaction and
\* removeTransaction calls each registry holds at most one item per id.
C6_KeyUniqueness == UniqueIds(providers) /\ UniqueIds(transactions)

\* C6 witness: a provider is added while a distinct provider with the same
\* id is registered, next to another provider and a transaction.
C6_Witness ==
    /\ AddedOne
    /\ \E q \in Registered(call.pre.providers) :
           q # call.args[1].ref /\ getId(q) = getId(call.args[1].ref)
    /\ Len(providers) > 1
    /\ transactions # <<>>

\* getProvider(p.getId()) gives p
FoundById(items, p) == getProvider(items, IdArg(getId(p))) = Obj(p)

\* the call is removeProvider for p: with the instance p or with p's id
RemovalFor(c, p) ==
    /\ c.op = "removeProvider"
    /\ c.args[1] = InstanceArg(p) \/ c.args[1] = IdArg(getId(p))

\* the call is addProvider with a provider other than p that has p's id
AdditionOver(c, p) ==
    /\ c.op = "addProvider"
    /\ \E i \in 1..Len(c.args) :
           c.args[i].ref # p /\ getId(c.args[i].ref) = getId(p)

\* the call is addProvider with p among its arguments
AdditionOf(c, p) ==
    /\ c.op = "addProvider"
    /\ \E i \in 1..Len(c.args) : c.args[i].ref = p

\* nothing p delivers is republished
Silent(ls, p) == \A event \in Deliveries : fireData(ls, p, event) = <<>>

\* addProvider(p) returned: getProvider(p.getId()) gives p
C7_FoundWhenAdded ==
    AddedOne => FoundById(providers, call.args[1].ref)

\* removeProvider returned p: getProvider(p.getId()) does not give p and
\* nothing p delivers is republished
C7_GoneWhenRemoved ==
    (call.op = "removeProvider" /\ call.ret.tag = "object") =>
        /\ ~FoundById(providers, call.ret.ref)
        /\ Silent(listeners, call.ret.ref)

\* a provider whose payloads are not republished stays so until it is added
StaysSilent(p) ==
    (Silent(listeners, p) /\ ~AdditionOf(call', p)) => Silent(listeners', p)

\* C7 as stated: from the moment addProvider(p) returns until removeProvider
\* is called for p, getProvider(p.getId()) gives p; after removeProvider
\* returned p, getProvider(p.getId()) does not give p and p's payloads are
\* not republished.
C7_FoundUntilRemoved ==
    /\ [](C7_FoundWhenAdded /\ C7_GoneWhenRemoved)
    /\ [][\A p \in Providers :
             /\ (FoundById(providers, p) /\ ~RemovalFor(call', p))
                    => FoundById(providers', p)
             /\ StaysSilent(p)]_vars

\* C7 amended: from the moment addProvider(p) returns, getProvider(p.getId())
\* gives p until removeProvider is called for p or addProvider is called
\* with another provider that has p's id; after removeProvider returned p,
\* getProvider(p.getId()) does not give p and p's payloads are not
\* republished until p is added again.
C7_FoundUntilRemovedOrReplaced ==
    /\ [](C7_FoundWhenAdded /\ C7_GoneWhenRemoved)
    /\ [][\A p \in Providers :
             /\ (FoundById(providers, p) /\ ~RemovalFor(call', p)
                     /\ ~AdditionOver(call', p))
                    => FoundById(providers', p)
             /\ StaysSilent(p)]_vars

\* C7 witness: removeProvider returns a provider that was registered, and
\* another provider stays registered.
C7_Witness ==
    /\ call.op = "removeProvider"
    /\ call.ret.tag = "object"
    /\ call.ret.ref \in Registered(call.pre.providers)
    /\ providers # <<>>

\* C9: onProviderData is attached to exactly the providers in the registry,
\* so that no payload is republished from a provider getProvider cannot
\* find.
C9_ListenersAreRegistered ==
    /\ listeners = Registered(providers)
    /\ (call.op = "data" /\ fired # <<>>) => FoundById(providers, call.provider)

\* the world the last call started from
PreWorld ==
    [providers |-> call.pre.providers, listeners |-> call.pre.listeners,
     connected |-> call.pre.connected, instantiated |-> call.pre.instantiated,
     connects |-> <<>>, ret |-> UndefinedV]

\* addProvider(p1); ...; addProvider(pn), one single-argument call each
RECURSIVE OneByOne(_, _)
OneByOne(w, args) ==
    IF args = <<>> THEN w
    ELSE OneByOne(addProvider(w, <<Head(args)>>), Tail(args))

\* C8: addProvider(p1, ..., pn) with n > 1 leaves the registry, the 'data'
\* listeners and every provider's connection state as the single calls
\* addProvider(p1); ...; addProvider(pn) would, and every pi is connected
\* afterwards.
C8_ManyAsOneByOne ==
    (call.op = "addProvider" /\ Len(call.args) > 1) =>
        LET w == OneByOne(PreWorld, call.args)
        IN /\ providers = w.providers
           /\ listeners = w.listeners
           /\ connected = w.connected
           /\ \A i \in 1..Len(call.args) : connected[call.args[i].ref]

\* C8 witness: addProvider is called with two distinct providers that have
\* the same id, neither connected before; the later one is registered.
C8_Witness ==
    /\ call.op = "addProvider"
    /\ Len(call.args) > 1
    /\ call.args[1].ref # call.args[2].ref
    /\ getId(call.args[1].ref) = getId(call.args[2].ref)
    /\ ~call.pre.connected[call.args[1].ref]
    /\ ~call.pre.connected[call.args[2].ref]
    /\ call.args[2].ref \in Registered(providers)
    /\ call.args[1].ref \notin Registered(providers)

=============================================================================
